---- MODULE Spec2Model ----
(***************************************************************************)
(* A model of the storage engine of jeffy-mathew/key-value-store:          *)
(* internal/repository/repository.go (KeyValueStore: the map under its     *)
(* RWMutex, the periodic snapshot goroutine, Close, and the gob snapshot   *)
(* file), with the callers of Set/Get/Delete as concurrent processes.      *)
(***************************************************************************)
EXTENDS Integers, Sequences, FiniteSets, TLC

\* ------------------------------------------------------------------ bounds
\* Caller operations (Set/Get/Delete invocations) per run.
MaxOps == 3

\* ------------------------------------------------------------ the universe
Keys == {"a", "b"}
Callers == {"c1", "c2"}
Ticker == "tk"
Closer == "cl"
NoProc == "none"
Syncers == {Ticker, Closer}
Procs == Callers \cup Syncers

\* A Go []byte: nil-ness and content.
NilBytes == [nil |-> TRUE, b |-> <<>>]
EmptyBytes == [nil |-> FALSE, b |-> <<>>]
MkBytes(s) == [nil |-> FALSE, b |-> s]
\* The values callers pass to Set.
Values == {EmptyBytes, MkBytes(<<1>>)}

\* ------------------------------------------------------- Go map operations
\* A Go map[string][]byte: nil-ness and entries (a function on its keys).
NoEntries == [k \in {} |-> NilBytes]
NilMap == [isnil |-> TRUE, m |-> NoEntries]
\* make(map[string][]byte)
MakeMap == [isnil |-> FALSE, m |-> NoEntries]

\* Mutant of MapAssign: the entry is written only when the key is absent.
MapAssignKeepOld(gm, k, v) ==
    [isnil |-> FALSE,
     m |-> [x \in DOMAIN gm.m \cup {k} |-> IF x \in DOMAIN gm.m THEN gm.m[x] ELSE v]]

\* Mutant of MapAssign: the other entries are dropped.
MapAssignAlone(gm, k, v) == [isnil |-> FALSE, m |-> [x \in {k} |-> v]]

\* k.data[key] = value (on a non-nil map)
MapAssign(gm, k, v) ==
    [isnil |-> FALSE,
     m |-> [x \in DOMAIN gm.m \cup {k} |-> IF x = k THEN v ELSE gm.m[x]]]

\* Mutant of MapDelete: nothing is removed.
MapDeleteNothing(gm, k) == gm

\* delete(k.data, key): a no-op on a nil map and on an absent key
MapDelete(gm, k) ==
    [isnil |-> gm.isnil, m |-> [x \in DOMAIN gm.m \ {k} |-> gm.m[x]]]

\* What Get returns: value, exists and the error, which is nil when err is FALSE.
Result(v, found) == [value |-> v, found |-> found, err |-> FALSE]

\* Mutant of MapIndex: an entry with a zero-length value is reported absent.
MapIndexEmptyAbsent(gm, k) ==
    IF k \in DOMAIN gm.m /\ Len(gm.m[k].b) > 0
    THEN Result(gm.m[k], TRUE)
    ELSE Result(NilBytes, FALSE)

\* value, exists := k.data[key]; return value, exists, nil. The value is the
\* zero value (nil) when the key is absent.
MapIndex(gm, k) ==
    IF k \in DOMAIN gm.m
    THEN Result(gm.m[k], TRUE)
    ELSE Result(NilBytes, FALSE)

\* ----------------------------------------------------------- gob snapshot
\* What gob puts on the wire for Data{Store: gm}: a nil map field is omitted,
\* a non-nil map (even empty) is sent; each value is sent as its bytes, so a
\* nil and an empty slice are the same on the wire.
GobEncode(gm) ==
    [hasStore |-> ~gm.isnil, entries |-> [k \in DOMAIN gm.m |-> gm.m[k].b]]

\* What gob decodes into a fresh Data: an omitted field stays nil; a
\* zero-length value decodes to a nil slice.
GobDecode(w) ==
    IF ~w.hasStore
    THEN NilMap
    ELSE [isnil |-> FALSE,
          m |-> [k \in DOMAIN w.entries |->
                    [nil |-> Len(w.entries[k]) = 0, b |-> w.entries[k]]]]

NoWire == [hasStore |-> FALSE, entries |-> [k \in {} |-> <<>>]]

\* The file at DataFile. kind: "absent"; "empty" (zero bytes, as after
\* truncation); "partial" (a write that stopped part-way); "garbage" (not a
\* gob stream); "unreadable" (exists, cannot be read); "full" (one complete
\* encoded Data, in wire).
File(kind, w) == [kind |-> kind, wire |-> w]
AbsentFile == File("absent", NoWire)
EmptyFile == File("empty", NoWire)
PartialFile == File("partial", NoWire)
FullFile(gm) == File("full", GobEncode(gm))

\* The files an engine can be started on.
Snap0 == [k \in {"a", "b"} |-> IF k = "a" THEN EmptyBytes ELSE MkBytes(<<1>>)]
InitFiles ==
    { AbsentFile, EmptyFile, File("garbage", NoWire), File("unreadable", NoWire),
      FullFile(NilMap), FullFile(MakeMap), FullFile([isnil |-> FALSE, m |-> Snap0]) }

\* Mutant of LoadResult: a missing file is reported as an error.
LoadResultNoFileFails(f) ==
    CASE f.kind = "full" -> [err |-> FALSE, assign |-> TRUE, store |-> GobDecode(f.wire)]
      [] OTHER -> [err |-> TRUE, assign |-> FALSE, store |-> NilMap]

\* Mutant of LoadResult: a file that cannot be read or decoded is treated like
\* a missing one.
LoadResultIgnoresErrors(f) ==
    CASE f.kind = "full" -> [err |-> FALSE, assign |-> TRUE, store |-> GobDecode(f.wire)]
      [] OTHER -> [err |-> FALSE, assign |-> FALSE, store |-> NilMap]

\* Mutant of LoadResult: the decoded snapshot is not installed.
LoadResultNoAssign(f) ==
    CASE f.kind = "absent" -> [err |-> FALSE, assign |-> FALSE, store |-> NilMap]
      [] f.kind = "full" -> [err |-> FALSE, assign |-> FALSE, store |-> NilMap]
      [] OTHER -> [err |-> TRUE, assign |-> FALSE, store |-> NilMap]

\* loadFromDisk: os.ReadFile then gob decode. err: the error returned;
\* assign: whether k.data is replaced, and by what.
LoadResult(f) ==
    CASE f.kind = "absent" -> [err |-> FALSE, assign |-> FALSE, store |-> NilMap]
      [] f.kind = "full" -> [err |-> FALSE, assign |-> TRUE, store |-> GobDecode(f.wire)]
      [] OTHER -> [err |-> TRUE, assign |-> FALSE, store |-> NilMap]

\* ------------------------------------------------------------------- state
VARIABLES
    file,        \* the file at config.DataFile
    file0,       \* the file the engine was constructed on (history)
    data,        \* k.data
    wholder,     \* k.mu: the writer that holds or awaits the write lock
    readers,     \* k.mu: the processes holding the read lock
    done,        \* k.done is closed
    ctor,        \* position of NewKeyValueStore
    pc,          \* position of every process
    op,          \* callers: the operation in progress
    arg,         \* callers: its key and value
    res,         \* callers: the result of the Get that has just returned
    tickPending, \* a tick is waiting in ticker.C
    nops,        \* caller operations invoked so far
    closeErr,    \* what Close returned: "none" (not yet), "nil", "err"
    alive,       \* the process has not panicked
    cand,        \* history: per key, what the completed writes may have left
    kill,        \* history: per caller, what its write in progress supersedes
    allowed,     \* history: per caller, what its Get in progress may return
    quiet,       \* history: no caller operation during or after Close
    srv,         \* position of the server program (main, Server.Run)
    opts,        \* the Service's maxKeyLength and MaxValueSize
    hpc,         \* HTTP handlers: position in SetKey / GetKey / DeleteKey
    hreq,        \* HTTP handlers: the request being served
    hresp        \* HTTP handlers: the response written

engineVars == <<data, wholder, readers, done>>
callVars == <<op, arg, res, nops>>
histVars == <<cand, kill, allowed>>
svcVars == <<srv, opts, hpc, hreq, hresp>>
vars == <<file, file0, data, wholder, readers, done, ctor, pc, op, arg, res,
          tickPending, nops, closeErr, alive, cand, kill, allowed, quiet,
          srv, opts, hpc, hreq, hresp>>

\* History: what a Get is expected to report for a key, and where that comes
\* from: the snapshot the engine started on ("file"), a Set or a Delete.
Obs(src, found, b) == [src |-> src, found |-> found, b |-> b]
\* What the snapshot in file f holds for key k.
ObsOfFile(f, k) ==
    IF f.kind = "full" /\ k \in DOMAIN f.wire.entries
    THEN Obs("file", TRUE, f.wire.entries[k])
    ELSE Obs("file", FALSE, <<>>)
\* The result r of a Get reports o: same presence, same bytes, nil error.
Matches(r, o) == r.found = o.found /\ r.value.b = o.b /\ ~r.err

NoArg == [k |-> "a", v |-> NilBytes]

\* The HTTP handlers (goroutines of net/http serving one request each).
Handlers == {"h1", "h2"}
\* Opts{}: both limits unset.
ZeroOpts == [MaxKeyLength |-> 0, MaxValueSize |-> 0]
NoReq == [method |-> "none", json |-> FALSE, key |-> <<>>, value |-> <<>>]
NoResp == [code |-> 0, status |-> 0, value |-> <<>>]
NoRes == Result(NilBytes, FALSE)

Init ==
    /\ file0 \in InitFiles
    /\ file = file0
    /\ data = MakeMap
    /\ wholder = NoProc
    /\ readers = {}
    /\ done = FALSE
    /\ ctor = "load"
    /\ pc = [p \in Procs |-> IF p = Ticker THEN "notStarted" ELSE "idle"]
    /\ op = [p \in Callers |-> "none"]
    /\ arg = [p \in Callers |-> NoArg]
    /\ res = [p \in Callers |-> NoRes]
    /\ tickPending = FALSE
    /\ nops = 0
    /\ closeErr = "none"
    /\ alive = TRUE
    /\ cand = [k \in Keys |-> {ObsOfFile(file0, k)}]
    /\ kill = [p \in Callers |-> {}]
    /\ allowed = [p \in Callers |-> {}]
    /\ quiet = FALSE
    /\ srv = "main"
    /\ opts = ZeroOpts
    /\ hpc = [h \in Handlers |-> "idle"]
    /\ hreq = [h \in Handlers |-> NoReq]
    /\ hresp = [h \in Handlers |-> NoResp]

\* ------------------------------------------------------------ k.mu (RWMutex)
\* Mutant of RLockFree: a reader does not wait for the writer.
RLockIgnoresWriter == TRUE

\* RLock proceeds only while no writer holds or awaits the lock.
RLockFree == wholder = NoProc

\* Mutant of LockFree: writers are not serialized among themselves.
LockNotSerialized == TRUE

\* Lock, first half: writers are serialized among themselves (rw.w).
LockFree == wholder = NoProc

\* Mutant of ReadersDrained: a writer does not wait for the readers.
LockIgnoresReaders == TRUE

\* Lock, second half: the writer waits until the active readers have left.
ReadersDrained == readers = {}

\* Processes inside a critical section of k.mu.
InWriteCS(p) == p \in Callers /\ pc[p] = "cs"
InReadCS(p) ==
    \/ p \in Callers /\ pc[p] = "rcs"
    \/ p \in Syncers /\ pc[p] \in {"sync_create", "sync_encode", "sync_ok", "sync_err"}
WriterInCS == \E p \in Callers : InWriteCS(p)

\* ------------------------------------------------------ NewKeyValueStore
\* kvs.loadFromDisk(): the first statement after the struct is built.
NewLoad ==
    /\ alive /\ ctor = "load"
    /\ LET r == LoadResult(file) IN
         /\ ctor' = IF r.err THEN "failed" ELSE "spawn"
         /\ data' = IF r.assign THEN r.store ELSE data
    /\ UNCHANGED <<file, file0, wholder, readers, done, pc, callVars, tickPending,
                   closeErr, alive, histVars, quiet, svcVars>>

\* go kvs.startSync(): the goroutine creates its ticker and waits in select.
NewSpawn ==
    /\ alive /\ ctor = "spawn"
    /\ ctor' = "return"
    /\ pc' = [pc EXCEPT ![Ticker] = "select"]
    /\ UNCHANGED <<file, file0, engineVars, callVars, tickPending,
                   closeErr, alive, histVars, quiet, svcVars>>

\* The values of config.SyncInterval that are not positive: negative, and
\* zero (Config{} with the field unset).
NonPositive == {0 - 1, 0}

\* go kvs.startSync() of an engine configured with such a SyncInterval:
\* time.NewTicker panics in the goroutine, and nothing recovers it.
NewSpawnPanics ==
    /\ alive /\ ctor = "spawn"
    /\ \E d \in NonPositive : d <= 0 /\ alive' = FALSE
    /\ UNCHANGED <<file, file0, engineVars, ctor, pc, callVars, tickPending,
                   closeErr, histVars, quiet, svcVars>>

\* return kvs, nil: from here on callers hold the engine.
NewReturn ==
    /\ alive /\ ctor = "return"
    /\ ctor' = "open"
    /\ UNCHANGED <<file, file0, engineVars, pc, callVars, tickPending,
                   closeErr, alive, histVars, quiet, svcVars>>

\* ------------------------------------------------------------- startSync
\* The runtime timer puts a tick into ticker.C (capacity 1).
Tick ==
    /\ alive /\ pc[Ticker] \notin {"notStarted", "exited"}
    /\ ~tickPending
    /\ tickPending' = TRUE
    /\ UNCHANGED <<file, file0, engineVars, ctor, pc, callVars, closeErr, alive,
                   histVars, quiet, svcVars>>

\* select, case <-ticker.C (chosen whenever a tick is ready, k.done closed or not)
TkSelectTick ==
    /\ alive /\ pc[Ticker] = "select" /\ tickPending
    /\ tickPending' = FALSE
    /\ pc' = [pc EXCEPT ![Ticker] = "sync_rlock"]
    /\ UNCHANGED <<file, file0, engineVars, ctor, callVars, closeErr,
                   alive, histVars, quiet, svcVars>>

\* Mutant of TkLog: the goroutine gives up after a failed write.
TkLogGivesUp ==
    /\ alive /\ pc[Ticker] \in {"ret_nil", "ret_err"}
    /\ pc' = [pc EXCEPT ![Ticker] = IF pc[Ticker] = "ret_err" THEN "exited" ELSE "select"]
    /\ UNCHANGED <<file, file0, engineVars, ctor, callVars, tickPending,
                   closeErr, alive, histVars, quiet, svcVars>>

\* if err := k.syncToDisk(); err != nil { k.log.Error()... }: an error is
\* logged and dropped, and the loop selects again.
TkLog ==
    /\ alive /\ pc[Ticker] \in {"ret_nil", "ret_err"}
    /\ pc' = [pc EXCEPT ![Ticker] = "select"]
    /\ UNCHANGED <<file, file0, engineVars, ctor, callVars, tickPending,
                   closeErr, alive, histVars, quiet, svcVars>>

\* Mutant of TkSelectDone: the case only leaves the select (a break in place
\* of the return), and the loop goes on.
TkSelectDoneBreaks ==
    /\ alive /\ pc[Ticker] = "select" /\ done
    /\ pc' = [pc EXCEPT ![Ticker] = "select"]
    /\ UNCHANGED <<file, file0, engineVars, ctor, callVars, tickPending,
                   closeErr, alive, histVars, quiet, svcVars>>

\* select, case <-k.done: return (the deferred ticker.Stop runs)
TkSelectDone ==
    /\ alive /\ pc[Ticker] = "select" /\ done
    /\ pc' = [pc EXCEPT ![Ticker] = "exited"]
    /\ UNCHANGED <<file, file0, engineVars, ctor, callVars, tickPending,
                   closeErr, alive, histVars, quiet, svcVars>>

\* ------------------------------------------------------------ syncToDisk
\* Mutant of SyncReturn: the goroutine ends when its write has failed.
SyncReturnStopsOnError(p, err) ==
    /\ pc' = [pc EXCEPT ![p] = IF p = Ticker
                                THEN (IF err THEN "exited" ELSE "ret_nil")
                                ELSE "closed"]
    /\ closeErr' = IF p = Closer THEN (IF err THEN "err" ELSE "nil") ELSE closeErr

\* Mutant of SyncReturn: Close drops the error of its write.
SyncReturnDropsError(p, err) ==
    /\ pc' = [pc EXCEPT ![p] = IF p = Ticker
                                THEN (IF err THEN "ret_err" ELSE "ret_nil")
                                ELSE "closed"]
    /\ closeErr' = IF p = Closer THEN "nil" ELSE closeErr

\* Where syncToDisk returns to, and with what: the goroutine holds the error
\* in the if statement of its loop, Close hands it to its caller.
SyncReturn(p, err) ==
    /\ pc' = [pc EXCEPT ![p] = IF p = Ticker
                                THEN (IF err THEN "ret_err" ELSE "ret_nil")
                                ELSE "closed"]
    /\ closeErr' = IF p = Closer THEN (IF err THEN "err" ELSE "nil") ELSE closeErr

\* k.mu.RLock()
SyncRLock(p) ==
    /\ alive /\ pc[p] = "sync_rlock"
    /\ RLockFree
    /\ readers' = readers \cup {p}
    /\ pc' = [pc EXCEPT ![p] = "sync_create"]
    /\ UNCHANGED <<file, file0, data, wholder, done, ctor, callVars, tickPending,
                   closeErr, alive, histVars, quiet, svcVars>>

\* os.Create(k.config.DataFile): truncates the file, or fails and syncToDisk
\* returns the error (the deferred RUnlock runs).
SyncCreate(p) ==
    /\ alive /\ pc[p] = "sync_create"
    /\ \E ok \in BOOLEAN :
         IF ok
         THEN /\ file' = EmptyFile
              /\ pc' = [pc EXCEPT ![p] = "sync_encode"]
              /\ UNCHANGED <<readers, closeErr>>
         ELSE /\ readers' = readers \ {p}
              /\ SyncReturn(p, TRUE)
              /\ UNCHANGED file
    /\ UNCHANGED <<file0, data, wholder, done, ctor, callVars, tickPending,
                   alive, histVars, quiet, svcVars>>

\* Mutant of SyncEncode: the entries of the file the engine started on that
\* are no longer in the store are kept in the file (a merge).
SyncEncodeMerge(p) ==
    /\ alive /\ pc[p] = "sync_encode"
    /\ \E ok \in BOOLEAN :
         /\ IF ok
            THEN LET new == GobEncode(data)
                     old == IF file0.kind = "full" THEN file0.wire.entries
                                                   ELSE new.entries IN
                 file' = File("full",
                    [hasStore |-> new.hasStore,
                     entries |-> [k \in DOMAIN new.entries \cup DOMAIN old |->
                        IF k \in DOMAIN new.entries THEN new.entries[k] ELSE old[k]]])
            ELSE file' \in {file, PartialFile}
         /\ pc' = [pc EXCEPT ![p] = IF ok THEN "sync_ok" ELSE "sync_err"]
    /\ UNCHANGED <<file0, engineVars, ctor, callVars, tickPending, closeErr,
                   alive, histVars, quiet, svcVars>>

\* gob.NewEncoder(file).Encode(Data{Store: k.data}). A failing write leaves
\* the file as it is or part-written. An encode that runs while a writer
\* mutates the map is a data race: it may produce anything.
SyncEncode(p) ==
    /\ alive /\ pc[p] = "sync_encode"
    /\ \E ok \in BOOLEAN :
         /\ IF ok
            THEN file' \in (IF WriterInCS THEN {FullFile(data), PartialFile}
                                          ELSE {FullFile(data)})
            ELSE file' \in {file, PartialFile}
         /\ pc' = [pc EXCEPT ![p] = IF ok THEN "sync_ok" ELSE "sync_err"]
    /\ UNCHANGED <<file0, engineVars, ctor, callVars, tickPending, closeErr,
                   alive, histVars, quiet, svcVars>>

\* Mutant of SyncExit: the read lock is not released.
SyncExitKeepsLock(p) ==
    /\ alive /\ pc[p] \in {"sync_ok", "sync_err"}
    /\ readers' = readers
    /\ SyncReturn(p, pc[p] = "sync_err")
    /\ UNCHANGED <<file, file0, data, wholder, done, ctor, callVars, tickPending,
                   alive, histVars, quiet, svcVars>>

\* The deferred file.Close and RUnlock, and the return of Encode's error.
SyncExit(p) ==
    /\ alive /\ pc[p] \in {"sync_ok", "sync_err"}
    /\ readers' = readers \ {p}
    /\ SyncReturn(p, pc[p] = "sync_err")
    /\ UNCHANGED <<file, file0, data, wholder, done, ctor, callVars, tickPending,
                   alive, histVars, quiet, svcVars>>

\* ------------------------------------------------------------------ Close
\* Close(): close(k.done), then syncToDisk.
CloseCall ==
    /\ alive /\ ctor = "open" /\ pc[Closer] = "idle"
    /\ done' = TRUE
    /\ pc' = [pc EXCEPT ![Closer] = "sync_rlock"]
    /\ quiet' = \A p \in Callers : pc[p] = "idle"
    /\ UNCHANGED <<file, file0, data, wholder, readers, ctor, callVars,
                   tickPending, closeErr, alive, histVars, svcVars>>

\* Close() called again after a Close has returned: close(k.done) on a channel
\* that is already closed panics, and nothing recovers it.
CloseAgain ==
    /\ alive /\ ctor = "open" /\ pc[Closer] = "closed"
    /\ IF done
       THEN alive' = FALSE /\ UNCHANGED <<pc, closeErr>>
       ELSE /\ pc' = [pc EXCEPT ![Closer] = "sync_rlock"]
            /\ closeErr' = "none"
            /\ UNCHANGED alive
    /\ UNCHANGED <<file, file0, engineVars, ctor, callVars, tickPending,
                   histVars, quiet, svcVars>>

\* ------------------------------------------------------ Set / Get / Delete
\* The callers with a Get, or with a write, in progress on key k.
GetsOn(k) == {q \in Callers : op[q] = "get" /\ pc[q] \in {"rlock", "rcs"} /\ arg[q].k = k}
WritesOn(k) == {q \in Callers : op[q] \in {"set", "del"} /\ arg[q].k = k}
\* What a write leaves behind for a Get.
ObsOfWrite(o, v) == IF o = "set" THEN Obs("set", TRUE, v.b) ELSE Obs("del", FALSE, <<>>)
\* The callers with a Seed in progress, and what Seed(gm) leaves behind for a
\* Get of key k.
Seeding == {q \in Callers : op[q] = "seed"}
ObsOfSeed(gm, k) ==
    IF ~gm.isnil /\ k \in DOMAIN gm.m
    THEN Obs("seed", TRUE, gm.m[k].b)
    ELSE Obs("seed", FALSE, <<>>)

\* A caller enters Set(key, value) or Delete(key). History: the values left by
\* the writes already completed are the ones this write supersedes; every Get
\* in progress on the key may see it.
InvokeWrite(p, o, k, v) ==
    /\ alive /\ ctor = "open" /\ pc[p] = "idle" /\ nops < MaxOps
    /\ kill' = [kill EXCEPT ![p] = cand[k]]
    /\ allowed' = [q \in Callers |->
                     IF q \in GetsOn(k) THEN allowed[q] \cup {ObsOfWrite(o, v)}
                                        ELSE allowed[q]]
    /\ pc' = [pc EXCEPT ![p] = "lock"]
    /\ op' = [op EXCEPT ![p] = o]
    /\ arg' = [arg EXCEPT ![p] = [k |-> k, v |-> v]]
    /\ nops' = nops + 1
    /\ quiet' = FALSE
    /\ UNCHANGED <<file, file0, engineVars, ctor, res, tickPending, closeErr,
                   alive, cand, svcVars>>

InvokeSet(p) == \E k \in Keys, v \in Values : InvokeWrite(p, "set", k, v)

InvokeDelete(p) == \E k \in Keys : InvokeWrite(p, "del", k, NilBytes)

\* A caller enters Get(key). History: it may return what a completed write
\* left or what a write in progress is about to leave.
InvokeGet(p) ==
    /\ alive /\ ctor = "open" /\ pc[p] = "idle" /\ nops < MaxOps
    /\ \E k \in Keys :
         /\ arg' = [arg EXCEPT ![p] = [k |-> k, v |-> NilBytes]]
         /\ allowed' = [allowed EXCEPT ![p] =
                          cand[k] \cup {ObsOfWrite(op[q], arg[q].v) : q \in WritesOn(k)}
                                  \cup {ObsOfSeed(arg[q].m, k) : q \in Seeding}]
    /\ pc' = [pc EXCEPT ![p] = "rlock"]
    /\ op' = [op EXCEPT ![p] = "get"]
    /\ nops' = nops + 1
    /\ quiet' = FALSE
    /\ UNCHANGED <<file, file0, engineVars, ctor, res, tickPending, closeErr,
                   alive, cand, kill, svcVars>>

\* k.mu.Lock(), first half: take rw.w and announce the writer.
Lock1(p) ==
    /\ alive /\ pc[p] = "lock"
    /\ LockFree
    /\ wholder' = p
    /\ pc' = [pc EXCEPT ![p] = "wait"]
    /\ UNCHANGED <<file, file0, data, readers, done, ctor, callVars, tickPending,
                   closeErr, alive, histVars, quiet, svcVars>>

\* k.mu.Lock(), second half: the readers have left, the writer is inside.
Lock2(p) ==
    /\ alive /\ pc[p] = "wait"
    /\ ReadersDrained
    /\ pc' = [pc EXCEPT ![p] = "cs"]
    /\ UNCHANGED <<file, file0, engineVars, ctor, callVars, tickPending,
                   closeErr, alive, histVars, quiet, svcVars>>

\* The write of p returns nil. History: what it wrote replaces what it
\* supersedes, and is no longer superseded by the writes it overlapped.
WriteReturns(p) ==
    LET k == arg[p].k
        obs == ObsOfWrite(op[p], arg[p].v) IN
    /\ cand' = [cand EXCEPT ![k] = (@ \ kill[p]) \cup {obs}]
    /\ kill' = [q \in Callers |->
                  IF q = p THEN {}
                  ELSE IF q \in WritesOn(k) THEN kill[q] \ {obs} ELSE kill[q]]
    /\ pc' = [pc EXCEPT ![p] = "idle"]
    /\ op' = [op EXCEPT ![p] = "none"]
    /\ arg' = [arg EXCEPT ![p] = NoArg]

\* Another writer is inside its critical section at the same time as p.
WriteRace(p) == \E q \in Callers \ {p} : InWriteCS(q)

\* Set: k.data[key] = value, the deferred Unlock, return nil. An assignment to
\* an entry of a nil map panics. Two unsynchronized writes are a data race:
\* the update may be lost.
SetCS(p) ==
    /\ alive /\ pc[p] = "cs" /\ op[p] = "set"
    /\ IF data.isnil
       THEN /\ alive' = FALSE
            /\ UNCHANGED <<data, wholder, pc, op, arg, cand, kill>>
       ELSE /\ data' \in (IF WriteRace(p)
                          THEN {MapAssign(data, arg[p].k, arg[p].v), data}
                          ELSE {MapAssign(data, arg[p].k, arg[p].v)})
            /\ wholder' = NoProc
            /\ WriteReturns(p)
            /\ UNCHANGED alive
    /\ UNCHANGED <<file, file0, readers, done, ctor, res, nops, tickPending,
                   closeErr, allowed, quiet, svcVars>>

\* Delete: delete(k.data, key), the deferred Unlock, return nil.
DeleteCS(p) ==
    /\ alive /\ pc[p] = "cs" /\ op[p] = "del"
    /\ data' \in (IF WriteRace(p)
                  THEN {MapDelete(data, arg[p].k), data}
                  ELSE {MapDelete(data, arg[p].k)})
    /\ wholder' = NoProc
    /\ WriteReturns(p)
    /\ UNCHANGED <<file, file0, readers, done, ctor, res, nops, tickPending,
                   closeErr, alive, allowed, quiet, svcVars>>

\* The datasets handed to Seed: nil, one entry, two entries.
SeedSets ==
    { NilMap,
      [isnil |-> FALSE, m |-> [x \in {"a"} |-> MkBytes(<<1>>)]],
      [isnil |-> FALSE, m |-> [x \in {"a", "b"} |-> IF x = "a" THEN MkBytes(<<>>) ELSE MkBytes(<<1>>)]] }

\* A caller enters Seed(data). History: every Get in progress may see the
\* new dataset.
InvokeSeed(p) ==
    /\ alive /\ ctor = "open" /\ pc[p] = "idle" /\ nops < MaxOps
    /\ \E gm \in SeedSets :
         /\ arg' = [arg EXCEPT ![p] = [k |-> "a", v |-> NilBytes, m |-> gm]]
         /\ allowed' = [q \in Callers |->
                          IF op[q] = "get" /\ pc[q] \in {"rlock", "rcs"}
                          THEN allowed[q] \cup {ObsOfSeed(gm, arg[q].k)}
                          ELSE allowed[q]]
    /\ pc' = [pc EXCEPT ![p] = "lock"]
    /\ op' = [op EXCEPT ![p] = "seed"]
    /\ nops' = nops + 1
    /\ quiet' = FALSE
    /\ UNCHANGED <<file, file0, engineVars, ctor, res, tickPending, closeErr,
                   alive, cand, kill, svcVars>>

\* Mutant of SeedCS: the new entries are added to the old dataset.
SeedCSMerge(p) ==
    /\ alive /\ pc[p] = "cs" /\ op[p] = "seed"
    /\ data' = [isnil |-> data.isnil /\ arg[p].m.isnil,
                m |-> [x \in DOMAIN data.m \cup DOMAIN arg[p].m.m |->
                         IF x \in DOMAIN arg[p].m.m THEN arg[p].m.m[x] ELSE data.m[x]]]
    /\ wholder' = NoProc
    /\ cand' = [k \in Keys |-> {ObsOfSeed(arg[p].m, k)}]
    /\ pc' = [pc EXCEPT ![p] = "idle"]
    /\ op' = [op EXCEPT ![p] = "none"]
    /\ arg' = [arg EXCEPT ![p] = NoArg]
    /\ UNCHANGED <<file, file0, readers, done, ctor, res, nops, tickPending,
                   closeErr, alive, kill, allowed, quiet, svcVars>>

\* Seed: k.data = data, the deferred Unlock, return. History (of a Seed that
\* overlaps no Set or Delete): what it leaves replaces everything before it.
SeedCS(p) ==
    /\ alive /\ pc[p] = "cs" /\ op[p] = "seed"
    /\ data' = arg[p].m
    /\ wholder' = NoProc
    /\ cand' = [k \in Keys |-> {ObsOfSeed(arg[p].m, k)}]
    /\ pc' = [pc EXCEPT ![p] = "idle"]
    /\ op' = [op EXCEPT ![p] = "none"]
    /\ arg' = [arg EXCEPT ![p] = NoArg]
    /\ UNCHANGED <<file, file0, readers, done, ctor, res, nops, tickPending,
                   closeErr, alive, kill, allowed, quiet, svcVars>>

\* k.mu.RLock()
GetRLock(p) ==
    /\ alive /\ pc[p] = "rlock"
    /\ RLockFree
    /\ readers' = readers \cup {p}
    /\ pc' = [pc EXCEPT ![p] = "rcs"]
    /\ UNCHANGED <<file, file0, data, wholder, done, ctor, callVars, tickPending,
                   closeErr, alive, histVars, quiet, svcVars>>

\* Everything a Get could hand back.
AnyResult == {Result(v, f) : v \in Values \cup {NilBytes}, f \in BOOLEAN}

\* Get: value, exists := k.data[key], the deferred RUnlock, return. A read
\* that runs while a writer is inside its critical section is a data race:
\* it may return anything.
GetCS(p) ==
    /\ alive /\ pc[p] = "rcs"
    /\ res' \in {[res EXCEPT ![p] = r] :
                   r \in (IF WriterInCS THEN AnyResult ELSE {MapIndex(data, arg[p].k)})}
    /\ readers' = readers \ {p}
    /\ pc' = [pc EXCEPT ![p] = "ret"]
    /\ UNCHANGED <<file, file0, data, wholder, done, ctor, op, arg, nops,
                   tickPending, closeErr, alive, histVars, quiet, svcVars>>

\* The caller of Get writes a byte into the slice it was handed (only caller
\* of the engine, so the entry it read is still the one in the map). Get
\* returned the slice stored in the map, not a copy: the write lands in the
\* entry.
ModifyReturned(p) ==
    /\ alive /\ pc[p] = "ret"
    /\ res[p].found /\ Len(res[p].value.b) > 0
    /\ \A q \in Callers \ {p} : pc[q] = "idle"
    /\ \E x \in {1, 2} :
         LET w == MkBytes([res[p].value.b EXCEPT ![1] = x]) IN
         /\ x # res[p].value.b[1]
         /\ res' = [res EXCEPT ![p] = Result(w, TRUE)]
         /\ data' = MapAssign(data, arg[p].k, w)
    /\ UNCHANGED <<file, file0, wholder, readers, done, ctor, pc, op, arg, nops,
                   tickPending, closeErr, alive, histVars, quiet, svcVars>>

\* The caller of Get has its result and goes on.
GetDone(p) ==
    /\ alive /\ pc[p] = "ret"
    /\ pc' = [pc EXCEPT ![p] = "idle"]
    /\ op' = [op EXCEPT ![p] = "none"]
    /\ arg' = [arg EXCEPT ![p] = NoArg]
    /\ res' = [res EXCEPT ![p] = NoRes]
    /\ allowed' = [allowed EXCEPT ![p] = {}]
    /\ UNCHANGED <<file, file0, engineVars, ctor, nops, tickPending, closeErr,
                   alive, cand, kill, quiet, svcVars>>

\* ------------------------------------------------- the server program
\* The configurations of the program: none (a nil *Config), or limits that
\* are negative, unset (0) or 1.
NilConfig == [isnil |-> TRUE, MaxKeyLength |-> 0, MaxValueSize |-> 0]
Configs ==
    {NilConfig} \cup
    {[isnil |-> FALSE, MaxKeyLength |-> a, MaxValueSize |-> b] :
        a \in {0 - 1, 0, 1}, b \in {0 - 1, 0, 1}}

\* Config.GetMaxKeyLength, Config.GetMaxValueSize
GetMaxKeyLength(c) == IF c.isnil THEN 0 ELSE c.MaxKeyLength
GetMaxValueSize(c) == IF c.isnil THEN 0 ELSE c.MaxValueSize

\* router.New: the Opts handed to NewService.
OptsOf(c) == [MaxKeyLength |-> GetMaxKeyLength(c), MaxValueSize |-> GetMaxValueSize(c)]

\* The limits the configuration can hand to the Service.
OptsSet == {OptsOf(c) : c \in Configs}

\* main after NewKeyValueStore has returned, with an engine or (the error is
\* only logged) without one: router.New builds the Service from the
\* configuration, and Server.Run starts to serve.
RouterNew ==
    /\ alive /\ srv = "main" /\ ctor \in {"open", "failed"}
    /\ \E o \in OptsSet : opts' = o
    /\ srv' = "serving"
    /\ UNCHANGED <<file, file0, engineVars, ctor, pc, callVars, tickPending,
                   closeErr, alive, histVars, quiet, hpc, hreq, hresp>>

\* Server.Run, case sig := <-shutdown: an interrupt or SIGTERM has arrived and
\* api.Shutdown stops accepting requests.
Signal ==
    /\ alive /\ srv = "serving"
    /\ srv' = "shutdown"
    /\ UNCHANGED <<file, file0, engineVars, ctor, pc, callVars, tickPending,
                   closeErr, alive, histVars, quiet, opts, hpc, hreq, hresp>>

\* api.Shutdown has returned (the handlers have finished, or its timeout has
\* passed), Run returns, main returns, and the process exits.
RunReturns ==
    /\ alive /\ srv = "shutdown"
    /\ srv' = "exited"
    /\ UNCHANGED <<file, file0, engineVars, ctor, pc, callVars, tickPending,
                   closeErr, alive, histVars, quiet, opts, hpc, hreq, hresp>>

\* Server.Run, case err := <-serverErrors: ListenAndServe has failed, Run
\* returns the error and main ends the process with logger.Fatal.
ServeFails ==
    /\ alive /\ srv = "serving"
    /\ srv' = "fatal"
    /\ UNCHANGED <<file, file0, engineVars, ctor, pc, callVars, tickPending,
                   closeErr, alive, histVars, quiet, opts, hpc, hreq, hresp>>

\* The process of the server program is running.
Running == srv \notin {"exited", "fatal"}

\* ---------------------------------------------------------- the Service
\* Strings of the requests: keys and values, as sequences of bytes.
SvcKeys == {<<>>, <<1>>, <<2>>, <<1, 1>>}
SvcValues == {<<>>, <<1>>, <<1, 1>>}

\* []byte(kv.Value) and string(kv)
BytesOf(str) == [nil |-> FALSE, b |-> str]
StringOf(bytes) == bytes.b

DefaultMaxKeyLength == 256
DefaultMaxValueSize == 1048576

StatusSuccess == 1000
StatusKeyNotFound == 1001
StatusKeyExists == 1002
StatusInvalidKey == 1003
StatusInvalidJSON == 1006
StatusKeyTooLong == 1007
StatusValueTooLarge == 1008

HttpOK == 200
HttpCreated == 201
HttpBadRequest == 400
HttpNotFound == 404
HttpConflict == 409

\* Mutant of getMaxKeyLength: no default, an unset limit is a limit of 0.
getMaxKeyLengthNoDefault(o) == o.MaxKeyLength

\* Service.getMaxKeyLength, Service.getMaxValueSize
getMaxKeyLength(o) == IF o.MaxKeyLength <= 0 THEN DefaultMaxKeyLength ELSE o.MaxKeyLength
getMaxValueSize(o) == IF o.MaxValueSize <= 0 THEN DefaultMaxValueSize ELSE o.MaxValueSize

\* Mutant of validateKeyValue: a key or value of exactly the maximum length
\* is refused.
validateKeyValueStrict(o, key, value) ==
    IF Len(key) >= getMaxKeyLength(o) THEN "ErrKeyTooLong"
    ELSE IF Len(value) >= getMaxValueSize(o) THEN "ErrValueTooLarge"
    ELSE "nil"

\* Service.validateKeyValue
validateKeyValue(o, key, value) ==
    IF Len(key) > getMaxKeyLength(o) THEN "ErrKeyTooLong"
    ELSE IF Len(value) > getMaxValueSize(o) THEN "ErrValueTooLarge"
    ELSE "nil"

\* A request arrives and net/http hands it to a handler.
Request(h) ==
    /\ alive /\ srv = "serving" /\ hpc[h] = "idle" /\ nops < MaxOps
    /\ \E r \in
         {[method |-> "POST", json |-> FALSE, key |-> <<>>, value |-> <<>>]}
         \cup {[method |-> "POST", json |-> TRUE, key |-> k, value |-> v] :
                 k \in SvcKeys, v \in SvcValues}
         \cup {[method |-> m, json |-> TRUE, key |-> k, value |-> <<>>] :
                 m \in {"GET", "DELETE"}, k \in SvcKeys} :
         hreq' = [hreq EXCEPT ![h] = r]
    /\ hresp' = [hresp EXCEPT ![h] = NoResp]
    /\ hpc' = [hpc EXCEPT ![h] = "recv"]
    /\ nops' = nops + 1
    /\ UNCHANGED <<file, file0, engineVars, ctor, pc, op, arg, res, tickPending,
                   closeErr, alive, histVars, quiet, srv, opts>>

\* doJSONWrite (and the 200 of GetKey): the response is written and the
\* handler returns.
Respond(h, code, status, value) ==
    /\ hresp' = [hresp EXCEPT ![h] = [code |-> code, status |-> status, value |-> value]]
    /\ hpc' = [hpc EXCEPT ![h] = "idle"]

\* The handler panics (a nil store, or an assignment into a nil map); net/http
\* recovers it and drops the connection: no response is written.
Dropped(h) == Respond(h, 0, 0, <<>>)

\* main went on without an engine: the Service holds a nil *KeyValueStore.
StoreIsNil == ctor = "failed"

\* Mutant of SetKeyGet: an existing key is not refused.
SetKeyGetUpsert(h) ==
    /\ alive /\ Running /\ hpc[h] = "recv" /\ hreq[h].method = "POST"
    /\ LET q == hreq[h]
           e == validateKeyValue(opts, q.key, q.value) IN
         IF ~q.json THEN Respond(h, HttpBadRequest, StatusInvalidJSON, <<>>)
         ELSE IF e = "ErrKeyTooLong" THEN Respond(h, HttpBadRequest, StatusKeyTooLong, <<>>)
         ELSE IF e = "ErrValueTooLarge" THEN Respond(h, HttpBadRequest, StatusValueTooLarge, <<>>)
         ELSE IF StoreIsNil THEN Dropped(h)
         ELSE /\ RLockFree
              /\ hpc' = [hpc EXCEPT ![h] = "set_set"]
              /\ UNCHANGED hresp
    /\ UNCHANGED <<file, file0, engineVars, ctor, pc, callVars, tickPending,
                   closeErr, alive, histVars, quiet, srv, opts, hreq>>

\* SetKey up to its s.store.Get: the body is decoded, the pair validated, and
\* an existing key refused.
SetKeyGet(h) ==
    /\ alive /\ Running /\ hpc[h] = "recv" /\ hreq[h].method = "POST"
    /\ LET q == hreq[h]
           e == validateKeyValue(opts, q.key, q.value) IN
         IF ~q.json THEN Respond(h, HttpBadRequest, StatusInvalidJSON, <<>>)
         ELSE IF e = "ErrKeyTooLong" THEN Respond(h, HttpBadRequest, StatusKeyTooLong, <<>>)
         ELSE IF e = "ErrValueTooLarge" THEN Respond(h, HttpBadRequest, StatusValueTooLarge, <<>>)
         ELSE IF StoreIsNil THEN Dropped(h)
         ELSE /\ RLockFree
              /\ IF MapIndex(data, q.key).found
                 THEN Respond(h, HttpConflict, StatusKeyExists, <<>>)
                 ELSE /\ hpc' = [hpc EXCEPT ![h] = "set_set"]
                      /\ UNCHANGED hresp
    /\ UNCHANGED <<file, file0, engineVars, ctor, pc, callVars, tickPending,
                   closeErr, alive, histVars, quiet, srv, opts, hreq>>

\* SetKey from its s.store.Set on: the value is stored and 201 written.
SetKeySet(h) ==
    /\ alive /\ Running /\ hpc[h] = "set_set"
    /\ LockFree /\ ReadersDrained
    /\ IF data.isnil
       THEN Dropped(h) /\ UNCHANGED data
       ELSE /\ data' = MapAssign(data, hreq[h].key, BytesOf(hreq[h].value))
            /\ Respond(h, HttpCreated, StatusSuccess, <<>>)
    /\ UNCHANGED <<file, file0, wholder, readers, done, ctor, pc, callVars,
                   tickPending, closeErr, alive, histVars, quiet, srv, opts, hreq>>

\* GetKey: an empty key is refused, else s.store.Get decides between 404 and
\* 200 with the value.
GetKey(h) ==
    /\ alive /\ Running /\ hpc[h] = "recv" /\ hreq[h].method = "GET"
    /\ LET q == hreq[h] IN
         IF q.key = <<>> THEN Respond(h, HttpBadRequest, StatusInvalidKey, <<>>)
         ELSE IF StoreIsNil THEN Dropped(h)
         ELSE /\ RLockFree
              /\ LET r == MapIndex(data, q.key) IN
                   IF ~r.found
                   THEN Respond(h, HttpNotFound, StatusKeyNotFound, <<>>)
                   ELSE Respond(h, HttpOK, StatusSuccess, StringOf(r.value))
    /\ UNCHANGED <<file, file0, engineVars, ctor, pc, callVars, tickPending,
                   closeErr, alive, histVars, quiet, srv, opts, hreq>>

\* DeleteKey up to its s.store.Get: an empty key and an absent key are refused.
DeleteKeyGet(h) ==
    /\ alive /\ Running /\ hpc[h] = "recv" /\ hreq[h].method = "DELETE"
    /\ LET q == hreq[h] IN
         IF q.key = <<>> THEN Respond(h, HttpBadRequest, StatusInvalidKey, <<>>)
         ELSE IF StoreIsNil THEN Dropped(h)
         ELSE /\ RLockFree
              /\ IF ~MapIndex(data, q.key).found
                 THEN Respond(h, HttpNotFound, StatusKeyNotFound, <<>>)
                 ELSE /\ hpc' = [hpc EXCEPT ![h] = "del_del"]
                      /\ UNCHANGED hresp
    /\ UNCHANGED <<file, file0, engineVars, ctor, pc, callVars, tickPending,
                   closeErr, alive, histVars, quiet, srv, opts, hreq>>

\* DeleteKey from its s.store.Delete on: the entry is removed and 200 written.
DeleteKeyDel(h) ==
    /\ alive /\ Running /\ hpc[h] = "del_del"
    /\ LockFree /\ ReadersDrained
    /\ data' = MapDelete(data, hreq[h].key)
    /\ Respond(h, HttpOK, StatusSuccess, <<>>)
    /\ UNCHANGED <<file, file0, wholder, readers, done, ctor, pc, callVars,
                   tickPending, closeErr, alive, histVars, quiet, srv, opts, hreq>>

\* ------------------------------------------------------------------- Next
\* The engine through its whole life: construction, one caller issuing
\* operations one after the other, the snapshot goroutine, Close, and a second
\* construction on the same file.
SeqCallers == {"c1"}

Next ==
    \/ NewLoad
    \/ NewSpawn
    \/ NewReturn
    \/ Tick
    \/ TkSelectTick
    \/ TkLog
    \/ TkSelectDone
    \/ \E p \in Syncers : SyncRLock(p)
    \/ \E p \in Syncers : SyncCreate(p)
    \/ \E p \in Syncers : SyncEncode(p)
    \/ \E p \in Syncers : SyncExit(p)
    \/ CloseCall
    \/ \E p \in SeqCallers : InvokeSet(p)
    \/ \E p \in SeqCallers : InvokeDelete(p)
    \/ \E p \in SeqCallers : InvokeGet(p)
    \/ \E p \in SeqCallers : Lock1(p)
    \/ \E p \in SeqCallers : Lock2(p)
    \/ \E p \in SeqCallers : SetCS(p)
    \/ \E p \in SeqCallers : DeleteCS(p)
    \/ \E p \in SeqCallers : GetRLock(p)
    \/ \E p \in SeqCallers : GetCS(p)
    \/ \E p \in SeqCallers : GetDone(p)

Spec == Init /\ [][Next]_vars

\* The running engine under concurrent callers and the snapshot goroutine.
ConcNext ==
    \/ NewLoad
    \/ NewSpawn
    \/ NewReturn
    \/ Tick
    \/ TkSelectTick
    \/ TkLog
    \/ SyncRLock(Ticker)
    \/ SyncCreate(Ticker)
    \/ SyncEncode(Ticker)
    \/ SyncExit(Ticker)
    \/ \E p \in Callers : InvokeSet(p)
    \/ \E p \in Callers : InvokeDelete(p)
    \/ \E p \in Callers : InvokeGet(p)
    \/ \E p \in Callers : Lock1(p)
    \/ \E p \in Callers : Lock2(p)
    \/ \E p \in Callers : SetCS(p)
    \/ \E p \in Callers : DeleteCS(p)
    \/ \E p \in Callers : GetRLock(p)
    \/ \E p \in Callers : GetCS(p)
    \/ \E p \in Callers : GetDone(p)

\* The engine is started on a snapshot that holds both keys.
ConcInit == Init /\ file0 = FullFile([isnil |-> FALSE, m |-> Snap0])

ConcSpec == ConcInit /\ [][ConcNext]_vars

\* Concurrent writers on disjoint key sets, with readers of every key: each
\* caller Sets only the keys it owns.
KeysOf(p) == IF p = "c1" THEN {"a"} ELSE {"b"}

InvokeSetOwn(p) == \E k \in KeysOf(p), v \in Values : InvokeWrite(p, "set", k, v)

DisjNext ==
    \/ NewLoad
    \/ NewSpawn
    \/ NewReturn
    \/ Tick
    \/ TkSelectTick
    \/ TkLog
    \/ SyncRLock(Ticker)
    \/ SyncCreate(Ticker)
    \/ SyncEncode(Ticker)
    \/ SyncExit(Ticker)
    \/ \E p \in Callers : InvokeSetOwn(p)
    \/ \E p \in Callers : InvokeGet(p)
    \/ \E p \in Callers : Lock1(p)
    \/ \E p \in Callers : Lock2(p)
    \/ \E p \in Callers : SetCS(p)
    \/ \E p \in Callers : GetRLock(p)
    \/ \E p \in Callers : GetCS(p)
    \/ \E p \in Callers : GetDone(p)

\* The engine is started with no file: every key in the store was written.
DisjInit == Init /\ file0 = AbsentFile

DisjSpec == DisjInit /\ [][DisjNext]_vars

\* The running engine with one caller and the snapshot goroutine, never
\* closed, started on no file or on a snapshot.
RunNext ==
    \/ NewLoad
    \/ NewSpawn
    \/ NewReturn
    \/ Tick
    \/ TkSelectTick
    \/ TkLog
    \/ SyncRLock(Ticker)
    \/ SyncCreate(Ticker)
    \/ SyncEncode(Ticker)
    \/ SyncExit(Ticker)
    \/ \E p \in SeqCallers : InvokeSet(p)
    \/ \E p \in SeqCallers : InvokeDelete(p)
    \/ \E p \in SeqCallers : InvokeGet(p)
    \/ \E p \in SeqCallers : Lock1(p)
    \/ \E p \in SeqCallers : Lock2(p)
    \/ \E p \in SeqCallers : SetCS(p)
    \/ \E p \in SeqCallers : DeleteCS(p)
    \/ \E p \in SeqCallers : GetRLock(p)
    \/ \E p \in SeqCallers : GetCS(p)
    \/ \E p \in SeqCallers : GetDone(p)

RunInit == Init /\ file0 \in {AbsentFile, FullFile([isnil |-> FALSE, m |-> Snap0])}

RunSpec == RunInit /\ [][RunNext]_vars

\* The server program with one request at a time: main constructs the engine
\* on no file or on one it cannot open, builds the Service and serves until a signal or a failure of
\* the listener ends it.
SeqHandlers == {"h1"}

SvcNext ==
    \/ NewLoad
    \/ NewSpawn
    \/ NewReturn
    \/ RouterNew
    \/ Signal
    \/ RunReturns
    \/ ServeFails
    \/ \E h \in SeqHandlers : Request(h)
    \/ \E h \in SeqHandlers : SetKeyGet(h)
    \/ \E h \in SeqHandlers : SetKeySet(h)
    \/ \E h \in SeqHandlers : GetKey(h)
    \/ \E h \in SeqHandlers : DeleteKeyGet(h)
    \/ \E h \in SeqHandlers : DeleteKeyDel(h)

SvcInit == Init /\ file0 \in {AbsentFile, File("unreadable", NoWire)}

SvcSpec == SvcInit /\ [][SvcNext]_vars

\* The server program with two requests served at a time, the engine
\* constructed on no file.
ConcSvcNext ==
    \/ NewLoad
    \/ NewSpawn
    \/ NewReturn
    \/ RouterNew
    \/ Signal
    \/ RunReturns
    \/ ServeFails
    \/ \E h \in Handlers : Request(h)
    \/ \E h \in Handlers : SetKeyGet(h)
    \/ \E h \in Handlers : SetKeySet(h)
    \/ \E h \in Handlers : GetKey(h)
    \/ \E h \in Handlers : DeleteKeyGet(h)
    \/ \E h \in Handlers : DeleteKeyDel(h)

ConcSvcInit == Init /\ file0 = AbsentFile

ConcSvcSpec == ConcSvcInit /\ [][ConcSvcNext]_vars

\* The engine in service with a caller that writes into the slices Get hands
\* it.
AliasNext == RunNext \/ \E p \in SeqCallers : ModifyReturned(p)

AliasSpec == RunInit /\ [][AliasNext]_vars

\* One life of an engine that is reopened: started on no file or on the
\* snapshot an earlier life left, used by one caller, and closed.
ReopenNext ==
    \/ NewLoad
    \/ NewSpawn
    \/ NewReturn
    \/ CloseCall
    \/ SyncRLock(Closer)
    \/ SyncCreate(Closer)
    \/ SyncEncode(Closer)
    \/ SyncExit(Closer)
    \/ \E p \in SeqCallers : InvokeSet(p)
    \/ \E p \in SeqCallers : InvokeGet(p)
    \/ \E p \in SeqCallers : Lock1(p)
    \/ \E p \in SeqCallers : Lock2(p)
    \/ \E p \in SeqCallers : SetCS(p)
    \/ \E p \in SeqCallers : GetRLock(p)
    \/ \E p \in SeqCallers : GetCS(p)
    \/ \E p \in SeqCallers : GetDone(p)

ReopenSpec == RunInit /\ [][ReopenNext]_vars

\* The engine in service, constructed with any SyncInterval: a positive one
\* (NewSpawn) or not (NewSpawnPanics).
IntervalNext == RunNext \/ NewSpawnPanics

IntervalSpec == RunInit /\ [][IntervalNext]_vars

\* The engine of the benchmarks, which has Seed: constructed on no file, one
\* caller seeds it while another reads.
SeedNext ==
    \/ NewLoad
    \/ NewSpawn
    \/ NewReturn
    \/ InvokeSeed("c2")
    \/ Lock1("c2")
    \/ Lock2("c2")
    \/ SeedCS("c2")
    \/ InvokeGet("c1")
    \/ GetRLock("c1")
    \/ GetCS("c1")
    \/ GetDone("c1")

SeedInit == Init /\ file0 = AbsentFile

SeedSpec == SeedInit /\ [][SeedNext]_vars

\* The same engine under fair scheduling: the constructor and every goroutine
\* that can take a step eventually takes one, the timer keeps firing, and
\* file operations return.
Scheduling ==
    /\ WF_vars(NewLoad) /\ WF_vars(NewSpawn) /\ WF_vars(NewReturn)
    /\ WF_vars(Tick) /\ WF_vars(TkSelectTick) /\ WF_vars(TkLog)
    /\ WF_vars(SyncRLock(Ticker))
    /\ WF_vars(SyncCreate(Ticker)) /\ WF_vars(SyncEncode(Ticker))
    /\ WF_vars(SyncExit(Ticker))
    /\ \A p \in SeqCallers :
         /\ WF_vars(Lock1(p)) /\ WF_vars(Lock2(p))
         /\ WF_vars(SetCS(p)) /\ WF_vars(DeleteCS(p))
         /\ WF_vars(GetRLock(p)) /\ WF_vars(GetCS(p)) /\ WF_vars(GetDone(p))

\* os.Create, and Encode, of the periodic write succeed.
CreateOk == SyncCreate(Ticker) /\ pc'[Ticker] = "sync_encode"
EncodeOk == SyncEncode(Ticker) /\ pc'[Ticker] = "sync_ok"

\* The storage is writable again and again: of the file operations attempted
\* without end, not all fail. Storage that becomes and stays writable is a
\* case of this.
StorageRecovers == SF_vars(CreateOk) /\ SF_vars(EncodeOk)

LiveSpec == RunInit /\ [][RunNext]_vars /\ Scheduling /\ StorageRecovers

\* The engine from construction to shutdown, with a caller that stores
\* entries: the periodic goroutine, Close, and Set.
ExitNext ==
    \/ NewLoad
    \/ NewSpawn
    \/ NewReturn
    \/ Tick
    \/ TkSelectTick
    \/ TkLog
    \/ TkSelectDone
    \/ CloseCall
    \/ \E p \in Syncers : SyncRLock(p)
    \/ \E p \in Syncers : SyncCreate(p)
    \/ \E p \in Syncers : SyncEncode(p)
    \/ \E p \in Syncers : SyncExit(p)
    \/ \E p \in SeqCallers : InvokeSet(p)
    \/ \E p \in SeqCallers : Lock1(p)
    \/ \E p \in SeqCallers : Lock2(p)
    \/ \E p \in SeqCallers : SetCS(p)

ExitInit == Init /\ file0 = AbsentFile

\* A select with several ready cases takes one of them at random: a goroutine
\* that comes back to its select again and again with k.done closed does not
\* take the tick every time.
SelectIsRandom == SF_vars(TkSelectDone)

\* The snapshot write run by Close goes on to its end.
CloseScheduling ==
    /\ WF_vars(SyncRLock(Closer))
    /\ WF_vars(SyncCreate(Closer)) /\ WF_vars(SyncEncode(Closer))
    /\ WF_vars(SyncExit(Closer))

ExitSpec ==
    ExitInit /\ [][ExitNext]_vars /\ Scheduling /\ CloseScheduling /\ SelectIsRandom

\* The engine from construction to shutdown, with a caller that calls Close
\* again after Close has returned.
AgainNext == ExitNext \/ CloseAgain

AgainSpec == ExitInit /\ [][AgainNext]_vars

\* The engine with a writer of key "a" and a reader beside the periodic
\* goroutine and Close, all under fair scheduling.
ProgNext ==
    \/ NewLoad
    \/ NewSpawn
    \/ NewReturn
    \/ Tick
    \/ TkSelectTick
    \/ TkLog
    \/ TkSelectDone
    \/ CloseCall
    \/ \E p \in Syncers : SyncRLock(p)
    \/ \E p \in Syncers : SyncCreate(p)
    \/ \E p \in Syncers : SyncEncode(p)
    \/ \E p \in Syncers : SyncExit(p)
    \/ InvokeWrite("c1", "set", "a", MkBytes(<<1>>))
    \/ InvokeWrite("c1", "del", "a", NilBytes)
    \/ InvokeGet("c2")
    \/ \E p \in Callers : Lock1(p)
    \/ \E p \in Callers : Lock2(p)
    \/ \E p \in Callers : SetCS(p)
    \/ \E p \in Callers : DeleteCS(p)
    \/ \E p \in Callers : GetRLock(p)
    \/ \E p \in Callers : GetCS(p)
    \/ \E p \in Callers : GetDone(p)

\* Every caller that can take a step eventually takes one.
CallerScheduling ==
    \A p \in Callers :
        /\ WF_vars(Lock1(p)) /\ WF_vars(Lock2(p))
        /\ WF_vars(SetCS(p)) /\ WF_vars(DeleteCS(p))
        /\ WF_vars(GetRLock(p)) /\ WF_vars(GetCS(p)) /\ WF_vars(GetDone(p))

ProgSpec ==
    ExitInit /\ [][ProgNext]_vars /\ Scheduling /\ CloseScheduling /\ CallerScheduling

\* ------------------------------------------------------------------ claims
\* The Get of p has returned and its result is in res[p].
Returned(p) == pc[p] = "ret"
\* The store reports o for key k.
Holds(gm, k, o) ==
    /\ (k \in DOMAIN gm.m) = o.found
    /\ o.found => gm.m[k].b = o.b

\* C1 (read-your-write): a Get(k) that began when the only value a completed
\* write had left for k was the v of a Set(k, v), and during which no write
\* to k was in progress, returns (v, true, nil); operations on other keys
\* and snapshot writes in between make no difference.
C1_ReadYourWrite ==
    \A p \in Callers : Returned(p) =>
        \A o \in allowed[p] :
            (allowed[p] = {o} /\ o.src = "set") => Matches(res[p], o)

\* C1 happens: a Get of "a" returned after Set("a", <<1>>) and a write to "b",
\* with a snapshot written in between.
C1_Witness ==
    \E p \in Callers :
        /\ Returned(p) /\ arg[p].k = "a"
        /\ allowed[p] = {Obs("set", TRUE, <<1>>)}
        /\ cand["b"] \cap {Obs("set", TRUE, <<>>), Obs("del", FALSE, <<>>)} # {}
        /\ file.kind = "full" /\ file # file0

\* C2 (delete absence): a Get(k) that began when the only completed write
\* left for k was a Delete(k), with no write to k in progress during it,
\* returns found = false; and a Delete of an absent key returns and leaves
\* the store as it was.
C2_DeleteAbsence ==
    /\ [](\A p \in Callers : Returned(p) =>
            \A o \in allowed[p] :
                (allowed[p] = {o} /\ o.src = "del") => (~res[p].found /\ ~res[p].err))
    /\ [][\A p \in Callers :
            (pc[p] = "cs" /\ op[p] = "del" /\ arg[p].k \notin DOMAIN data.m)
                => (pc'[p] = "idle" => data' = data)]_vars

\* C2 happens: a Get of "b" returned after a Delete("b") of an entry that
\* the snapshot had loaded.
C2_Witness ==
    \E p \in Callers :
        /\ Returned(p) /\ arg[p].k = "b"
        /\ allowed[p] = {Obs("del", FALSE, <<>>)}
        /\ ObsOfFile(file0, "b").found

\* C3 (last write wins, idempotent): on every store the engine reaches, for
\* every key k and values v1, v2, Set(k, v1) then Set(k, v2) leaves what
\* Set(k, v2) alone leaves, Set(k, v) twice leaves what it leaves once, and
\* k has exactly the one entry v2 beside the untouched other entries.
C3_LastWriteWins ==
    ~data.isnil =>
        \A k \in Keys : \A v1 \in Values : \A v2 \in Values :
            LET twice == MapAssign(MapAssign(data, k, v1), k, v2)
                once == MapAssign(data, k, v2) IN
            /\ twice = once
            /\ MapAssign(once, k, v2) = once
            /\ DOMAIN twice.m = DOMAIN data.m \cup {k}
            /\ twice.m[k] = v2
            /\ \A x \in DOMAIN data.m \ {k} : twice.m[x] = data.m[x]

\* C3 happens: with no file at start, "a" was Set to the empty value (a
\* snapshot recorded it) and then Set to <<1>>, in two operations.
C3_Witness ==
    /\ file0 = AbsentFile /\ nops = 2 /\ \A p \in Callers : pc[p] = "idle"
    /\ file.kind = "full" /\ "a" \in DOMAIN file.wire.entries
    /\ file.wire.entries["a"] = <<>>
    /\ "a" \in DOMAIN data.m /\ data.m["a"] = MkBytes(<<1>>)

\* What a second engine constructed now on DataFile would start with.
Reloaded == LET r == LoadResult(file) IN IF r.assign THEN r.store ELSE MakeMap

\* C4 (persistence round-trip): once Close has returned nil, with no caller
\* operation during or after it, constructing an engine on DataFile succeeds
\* and gives every key the Get result it had before Close.
C4_RoundTrip ==
    (closeErr = "nil" /\ quiet) =>
        /\ ~LoadResult(file).err
        /\ \A k \in Keys :
             LET r == MapIndex(data, k) IN
             Holds(Reloaded, k, Obs("file", r.found, r.value.b))

\* C5 (no-file startup): with no file at DataFile, construction does not fail
\* and the store it yields is empty: until the first write, no key is in it and
\* every Get returns found = false.
C5_NoFileStartup ==
    file0 = AbsentFile =>
        /\ ctor # "failed"
        /\ (ctor # "load" /\ \A k \in Keys : cand[k] = {ObsOfFile(file0, k)})
              => (data = MakeMap /\ \A k \in Keys : ~MapIndex(data, k).found)
        /\ \A p \in Callers :
              (Returned(p) /\ allowed[p] = {ObsOfFile(file0, arg[p].k)}) => ~res[p].found

\* C5 happens: the engine was constructed on no file and a Get has returned.
C5_Witness ==
    /\ file0 = AbsentFile /\ ctor = "open"
    /\ \E p \in Callers : Returned(p) /\ nops = 1

\* The file at DataFile exists but cannot be read or decoded.
Corrupt(f) == f.kind \in {"empty", "partial", "garbage", "unreadable"}

\* C6 (corrupt-file startup): on a file that cannot be read or decoded,
\* NewKeyValueStore returns the error and no store: the snapshot goroutine is
\* never started, no caller gets an engine, and the file stays as it was.
C6_CorruptStartup ==
    Corrupt(file0) =>
        /\ ctor \in {"load", "failed"}
        /\ pc[Ticker] = "notStarted"
        /\ nops = 0 /\ \A p \in Callers : pc[p] = "idle"
        /\ pc[Closer] = "idle"
        /\ file = file0

\* C6 happens: construction on a garbage file has failed.
C6_Witness == file0.kind = "garbage" /\ ctor = "failed"

\* C7 (valid-file startup): on a valid snapshot, the store is hydrated from it
\* before the snapshot goroutine starts and before construction returns; no
\* caller operation runs before construction has returned; and the first Get
\* of a key returns what the snapshot holds for it.
C7_ValidStartup ==
    file0.kind = "full" =>
        /\ ctor # "failed"
        /\ (ctor # "load" /\ \A k \in Keys : cand[k] = {ObsOfFile(file0, k)})
              => \A k \in Keys : Holds(data, k, ObsOfFile(file0, k))
        /\ pc[Ticker] # "notStarted" => ctor \in {"return", "open"}
        /\ (nops > 0 \/ \E p \in Callers : pc[p] # "idle") => ctor = "open"
        /\ \A p \in Callers :
              (Returned(p) /\ allowed[p] = {ObsOfFile(file0, arg[p].k)})
                  => Matches(res[p], ObsOfFile(file0, arg[p].k))

\* C7 happens: the first operation on an engine started on the snapshot
\* {a: empty, b: <<1>>} was a Get of "b", and it has returned.
C7_Witness ==
    /\ file0 = FullFile([isnil |-> FALSE, m |-> Snap0])
    /\ \E p \in Callers : Returned(p) /\ arg[p].k = "b" /\ nops = 1

\* C8 (no lost updates): with writers on disjoint key sets, whenever the owner
\* of a key has no Set in progress, the store holds for that key exactly what
\* its last completed Set wrote (or what the engine started with), a Get that
\* ran meanwhile returned it, and the store holds no key that was neither
\* written nor initially present.
C8_NoLostUpdates ==
    \A k \in Keys :
        (ctor = "open" /\ WritesOn(k) = {}) =>
            /\ \E o \in cand[k] : cand[k] = {o} /\ Holds(data, k, o)
            /\ \A p \in Callers :
                  (Returned(p) /\ arg[p].k = k /\ allowed[p] = cand[k])
                      => \E o \in cand[k] : Matches(res[p], o)

\* C8 happens: both writers have Set their own key, nothing is in progress,
\* and the store holds the two values written.
C8_Witness ==
    /\ \A p \in Callers : pc[p] = "idle"
    /\ cand["a"] = {Obs("set", TRUE, <<1>>)}
    /\ cand["b"] = {Obs("set", TRUE, <<>>)}
    /\ file0 = AbsentFile

\* C9 (linearizability): every Get returns what some write that could be the
\* latest one in an order respecting real time has left (a write completed
\* and not superseded before the Get began, or one in progress during the
\* Get); and what it returns is the content of the store at the instant of
\* its read.
C9_Linearizable ==
    /\ [](\A p \in Callers : Returned(p) => \E o \in allowed[p] : Matches(res[p], o))
    /\ [][\A p \in Callers :
            (pc[p] = "rcs" /\ pc'[p] = "ret") =>
                /\ res'[p].found = (arg[p].k \in DOMAIN data.m)
                /\ res'[p].found => res'[p].value = data.m[arg[p].k]
                /\ ~res'[p].err]_vars

\* C9 happens: a Get has returned while a write to its key was in progress,
\* after another write to that key had completed.
C9_Witness ==
    \E p \in Callers : \E q \in Callers \ {p} :
        /\ Returned(p) /\ q \in WritesOn(arg[p].k)
        /\ \E o \in cand[arg[p].k] : o.src = "set" /\ o \in allowed[p]
        /\ ObsOfWrite(op[q], arg[q].v) \in allowed[p] \ cand[arg[p].k]

\* C10 (lock discipline): while a Set or Delete is inside its critical
\* section, no other Set, Delete, Get or snapshot serialization is inside its
\* own; and a reader is not kept out by other readers: with no writer holding
\* or awaiting the lock, a Get or a snapshot at its RLock can enter while
\* others are inside.
C10_LockDiscipline ==
    /\ \A p \in Callers : InWriteCS(p) =>
          \A q \in Procs \ {p} : ~InWriteCS(q) /\ ~InReadCS(q)
    /\ \A p \in Callers :
          (pc[p] = "rlock" /\ wholder = NoProc /\ alive) => ENABLED GetRLock(p)
    /\ (pc[Ticker] = "sync_rlock" /\ wholder = NoProc /\ alive) => ENABLED SyncRLock(Ticker)

\* C10 happens: a Set is inside its critical section while a Get and the
\* snapshot goroutine are waiting for the lock.
C10_Witness ==
    \E p \in Callers : \E q \in Callers \ {p} :
        /\ InWriteCS(p) /\ op[p] = "set"
        /\ pc[q] = "rlock"
        /\ pc[Ticker] = "sync_rlock"

\* Shared read lock: a Get and a snapshot serialization are inside their
\* critical sections at the same time.
ReadersTogether ==
    \E p \in Callers : pc[p] = "rcs" /\ InReadCS(Ticker)

\* ------------------------------------------------------- snapshot claims
\* File f holds one complete snapshot with exactly the entries of store gm.
Encodes(f, gm) ==
    /\ f.kind = "full"
    /\ DOMAIN f.wire.entries = DOMAIN gm.m
    /\ \A k \in DOMAIN gm.m : f.wire.entries[k] = gm.m[k].b

\* A snapshot write is between its RLock and its return.
SyncerInside == \E p \in Syncers : InReadCS(p)
\* The step in which the Encode of p's syncToDisk succeeds, and the one in
\* which that syncToDisk returns nil.
EncodeSucceeds(p) == pc[p] = "sync_encode" /\ pc'[p] = "sync_ok"
SyncSucceeds(p) == pc[p] = "sync_ok" /\ pc'[p] # "sync_ok"

\* C11 (snapshot point-in-time consistency): from the RLock of a snapshot
\* write to its return no Set or Delete is inside its critical section and
\* the store does not change, and an Encode that succeeds leaves in the file
\* exactly the entries of that store.
C11_SnapshotConsistent ==
    /\ [](SyncerInside => ~WriterInCS)
    /\ [][SyncerInside => data' = data]_vars
    /\ [][\A p \in Syncers : EncodeSucceeds(p) => Encodes(file', data)]_vars

\* C11 happens: the periodic write has returned nil with a non-empty store in
\* the file while a Set that arrived during the write still waits for the lock.
C11_Witness ==
    /\ pc[Ticker] = "ret_nil" /\ Encodes(file, data) /\ DOMAIN data.m # {}
    /\ \E p \in Callers : pc[p] = "wait" /\ op[p] = "set"

TickerFails ==
    /\ pc[Ticker] \in {"sync_create", "sync_err"}
    /\ pc'[Ticker] \notin {pc[Ticker], "sync_encode"}

\* C13 (a failed periodic write is invisible): the step in which a periodic
\* write fails changes neither the store nor any caller's operation or
\* result and hands the error to the goroutine, which goes back to its select
\* and never ends while the engine is open; no operation panics; and every
\* Get returns, with a nil error, the content of the store at its read, which
\* is what a write ordered before it has left, whatever became of the file.
C13_FailedWriteInvisible ==
    /\ [][TickerFails =>
            /\ data' = data /\ alive' = alive
            /\ op' = op /\ arg' = arg /\ res' = res
            /\ \A p \in Callers : pc'[p] = pc[p]
            /\ pc'[Ticker] = "ret_err"]_vars
    /\ [][pc[Ticker] = "ret_err" => pc'[Ticker] \in {"ret_err", "select"}]_vars
    /\ [](pc[Ticker] # "exited" /\ alive)
    /\ [][\A p \in Callers : (pc[p] = "rcs" /\ pc'[p] = "ret")
            => res'[p] = MapIndex(data, arg[p].k)]_vars
    /\ [](\A p \in Callers : Returned(p) =>
            ~res[p].err /\ \E o \in allowed[p] : Matches(res[p], o))

\* C13 happens: a periodic write has just failed leaving the file part-written,
\* and a Get that followed a Set(k, <<1>>) has returned.
C13_Witness ==
    /\ pc[Ticker] = "ret_err" /\ file = PartialFile
    /\ \E p \in Callers : Returned(p) /\ allowed[p] = {Obs("set", TRUE, <<1>>)}

\* C14 (retry after failure): after a periodic write has failed on an open
\* engine, the goroutine comes to attempt the write again; and with storage
\* that is writable again, a later periodic write returns nil with the store
\* of that moment in the file.
C14_RetryAfterFailure ==
    /\ (pc[Ticker] = "ret_err") ~> (pc[Ticker] = "sync_create")
    /\ (pc[Ticker] = "ret_err") ~> (pc[Ticker] = "ret_nil" /\ Encodes(file, data))

\* C14 happens: a periodic write is being attempted again on the part-written
\* file that a failed one has left, with entries in the store.
C14_Witness ==
    /\ pc[Ticker] = "sync_create" /\ file = PartialFile
    /\ DOMAIN data.m # {}

\* C15 (Close flushes synchronously): Close first closes k.done and then runs
\* one syncToDisk itself; it has returned exactly when that write is over, and
\* never writes again; and at its return with nil the file holds exactly the
\* entries of the store.
C15_CloseFlush ==
    /\ [][(pc[Closer] = "idle" /\ pc'[Closer] # "idle")
             => (done' /\ pc'[Closer] = "sync_rlock")]_vars
    /\ [][pc[Closer] = "closed" => pc'[Closer] = "closed"]_vars
    /\ [](closeErr # "none" <=> pc[Closer] = "closed")
    /\ [][(closeErr = "none" /\ closeErr' = "nil") => Encodes(file', data)]_vars

\* The step in which the syncToDisk run by Close returns after os.Create or
\* Encode has failed.
CloserFails ==
    \/ pc[Closer] = "sync_create" /\ pc'[Closer] \notin {"sync_create", "sync_encode"}
    \/ pc[Closer] = "sync_err" /\ pc'[Closer] # "sync_err"

\* C16 (shutdown failure is surfaced): when the os.Create or the Encode of the
\* write run by Close fails, Close returns a non-nil error; it returns nil only
\* out of a write whose Encode succeeded, which had put the whole store into
\* the file.
C16_CloseSurfacesFailure ==
    /\ [][CloserFails => closeErr' = "err"]_vars
    /\ [][(closeErr = "none" /\ closeErr' = "nil") => pc[Closer] = "sync_ok"]_vars
    /\ [][EncodeSucceeds(Closer) => Encodes(file', data)]_vars
    /\ [][closeErr # "none" => closeErr' = closeErr]_vars

\* C16 happens: Close has returned an error after its Encode failed part-way.
C16_Witness ==
    /\ closeErr = "err" /\ pc[Closer] = "closed"
    /\ file = PartialFile /\ DOMAIN data.m # {}

\* C17 (crash recovery): in every state the process may stop in, constructing
\* an engine on DataFile succeeds, and the store it would start with is that
\* of the last snapshot write that returned nil: it changes only in the step
\* in which a write returns nil, to the store that write has encoded.
C17_CrashRecovery ==
    /\ [](~LoadResult(file).err)
    /\ [][Reloaded' # Reloaded
            => (SyncSucceeds(Ticker) /\ Encodes(file', data))]_vars

\* C18 (no partial file visibility): the file is, in every state, absent or
\* one complete decodable snapshot.
C18_NoPartialFile == file.kind \in {"absent", "full"}

\* C19 (no I/O on the hot path): no snapshot write holds the lock while its
\* os.Create or its Encode is still to run or running, and no Set or Delete
\* waits for the lock behind a snapshot write.
C19_NoIOUnderLock ==
    /\ \A p \in Syncers : pc[p] \in {"sync_create", "sync_encode"} => p \notin readers
    /\ \A p \in Callers : pc[p] = "wait" => readers \cap Syncers = {}

\* C20 (no failure mode): no Set, Get or Delete panics; every Get returns a
\* nil error, and (nil, false, nil) for a key that is not in the store.
C20_NoFailureMode ==
    /\ alive
    /\ \A p \in SeqCallers : Returned(p) =>
          /\ ~res[p].err
          /\ arg[p].k \notin DOMAIN data.m => res[p] = Result(NilBytes, FALSE)

\* ------------------------------------------------------- frame conditions
\* C21 (frame conditions): no step of a Get and no step of a snapshot write
\* (periodic or of Close) changes the store; the step in which Set(k, v) or
\* Delete(k) acts leaves the presence and the value of every other key as
\* they were.
C21_Frame ==
    /\ [][\A p \in Callers :
            (op[p] = "get" /\ pc'[p] # pc[p]) => data' = data]_vars
    /\ [][\A p \in Syncers :
            (pc[p] \notin {"idle", "notStarted", "select"} /\ pc'[p] # pc[p])
                => data' = data]_vars
    /\ [][\A p \in Callers :
            (pc[p] = "cs" /\ pc'[p] # "cs") =>
                \A k \in Keys \ {arg[p].k} : MapIndex(data', k) = MapIndex(data, k)]_vars

\* C21 happens: on the snapshot {a: empty, b: <<1>>}, "a" was Set to <<1>>, a
\* snapshot was written, a Get has returned, and "b" is as it was loaded.
C21_Witness ==
    /\ file0 = FullFile([isnil |-> FALSE, m |-> Snap0])
    /\ cand["a"] = {Obs("set", TRUE, <<1>>)}
    /\ MapIndex(data, "b") = Result(MkBytes(<<1>>), TRUE)
    /\ file = FullFile(data)
    /\ \E p \in Callers : Returned(p)


\* ------------------------------------------------- claims of the server
\* C22: when the server process shuts down gracefully on an interrupt or
\* SIGTERM, the engine's Close is invoked, so that a final snapshot write is
\* attempted before the process exits: a process that has exited after a
\* signal has called Close.
C22_CloseOnShutdown == (srv = "exited" /\ ctor = "open") => pc[Closer] # "idle"


\* A response without a value.
Resp(code, status) == [code |-> code, status |-> status, value |-> <<>>]

\* The request of handler h is a POST /key whose body decodes and passes
\* validateKeyValue.
ValidPost(h) ==
    /\ hreq[h].method = "POST" /\ hreq[h].json
    /\ validateKeyValue(opts, hreq[h].key, hreq[h].value) = "nil"

\* Handler h answers in this step.
Answers(h) == hpc[h] # "idle" /\ hpc'[h] = "idle"

\* C23: SetKey is create-only.  A POST /key for a key already present answers
\* 409 with StatusKeyExists, does not call Set and leaves the store as it is;
\* for an absent key that passes validation it goes on to Set, which stores
\* the value and answers 201 with StatusSuccess.
C23_CreateOnly ==
    /\ [][\A h \in Handlers :
            (hpc[h] = "recv" /\ hpc'[h] # "recv" /\ ValidPost(h) /\ ~StoreIsNil) =>
                IF MapIndex(data, hreq[h].key).found
                THEN /\ hresp'[h] = Resp(HttpConflict, StatusKeyExists)
                     /\ hpc'[h] = "idle"
                     /\ data' = data
                ELSE hpc'[h] = "set_set" /\ data' = data]_vars
    /\ [][\A h \in Handlers :
            (hpc[h] = "set_set" /\ Answers(h)) =>
                /\ ValidPost(h)
                /\ hresp'[h] = Resp(HttpCreated, StatusSuccess)
                /\ MapIndex(data', hreq[h].key) = Result(BytesOf(hreq[h].value), TRUE)
                /\ \A k \in SvcKeys \ {hreq[h].key} : MapIndex(data', k) = MapIndex(data, k)]_vars

\* A second POST of key <<1>>, now with value <<1, 1>>, has been answered 409
\* and the key still holds the value <<1>> of the first.
C23_Witness ==
    /\ hresp["h1"] = Resp(HttpConflict, StatusKeyExists)
    /\ hreq["h1"].key = <<1>> /\ hreq["h1"].value = <<1, 1>>
    /\ MapIndex(data, <<1>>) = Result(BytesOf(<<1>>), TRUE)


C25_CreateThenRead ==
    [][\A h \in Handlers :
        (/\ hpc[h] = "recv" /\ Answers(h) /\ hreq[h].method = "GET"
         /\ ~StoreIsNil /\ MapIndex(data, hreq[h].key).found) =>
            hresp'[h] = [code |-> HttpOK, status |-> StatusSuccess,
                         value |-> StringOf(MapIndex(data, hreq[h].key).value)]]_vars


\* C26: DeleteKey.  For a key absent from the store it answers 404 with
\* StatusKeyNotFound and does not call Delete; for a present key it goes on to
\* Delete, which removes the entry and answers 200 with StatusSuccess; and a
\* GetKey for a key the store does not hold (deleted and not created again)
\* answers 404 (only a non-empty key can have been deleted).
C26_DeleteKey ==
    /\ [][\A h \in Handlers :
            (hpc[h] = "recv" /\ hpc'[h] # "recv" /\ hreq[h].method = "DELETE" /\ ~StoreIsNil) =>
                IF MapIndex(data, hreq[h].key).found
                THEN hpc'[h] = "del_del" /\ data' = data
                ELSE /\ hresp'[h] = Resp(HttpNotFound, StatusKeyNotFound)
                     /\ hpc'[h] = "idle"
                     /\ data' = data]_vars
    /\ [][\A h \in Handlers :
            (hpc[h] = "del_del" /\ Answers(h)) =>
                /\ hresp'[h] = Resp(HttpOK, StatusSuccess)
                /\ ~MapIndex(data', hreq[h].key).found
                /\ \A k \in SvcKeys \ {hreq[h].key} : MapIndex(data', k) = MapIndex(data, k)]_vars
    /\ [][\A h \in Handlers :
            (/\ hpc[h] = "recv" /\ Answers(h) /\ hreq[h].method = "GET"
             /\ ~StoreIsNil /\ hreq[h].key # <<>>
             /\ ~MapIndex(data, hreq[h].key).found) =>
                hresp'[h] = Resp(HttpNotFound, StatusKeyNotFound)]_vars


\* --------------------------------------------------------- claims of Seed
\* C27: seeding is an atomic whole-dataset replacement.  After Seed(m), Get(k)
\* returns (m[k], true) for every key of m and found = false for every other
\* key; a Get that runs concurrently with Seed returns what the complete old
\* dataset or the complete new one holds for its key; and no step of Seed
\* writes the snapshot file or starts a snapshot write.
C27_SeedAtomic ==
    /\ [](\A p \in Callers : Returned(p) => \E o \in allowed[p] : Matches(res[p], o))
    /\ [](\A p \in Callers : Returned(p) =>
            \A o \in allowed[p] :
                (allowed[p] = {o} /\ o.src = "seed") => Matches(res[p], o))
    /\ [][\A p \in Callers :
            (pc[p] = "cs" /\ op[p] = "seed" /\ pc'[p] = "idle") =>
                \A k \in Keys :
                    MapIndex(data', k) =
                        IF ~arg[p].m.isnil /\ k \in DOMAIN arg[p].m.m
                        THEN Result(arg[p].m.m[k], TRUE)
                        ELSE Result(NilBytes, FALSE)]_vars
    /\ [][\A p \in Callers :
            (op[p] = "seed" /\ pc'[p] # pc[p]) =>
                /\ file' = file
                /\ \A q \in Syncers : pc'[q] = pc[q]]_vars

\* C27 happens: a Get of "b" that began after Seed of {a, b} and overlapped a
\* Seed of {a} has returned what the old dataset held, the new one being in
\* place.
C27_Witness ==
    /\ Returned("c1") /\ arg["c1"].k = "b"
    /\ allowed["c1"] = {Obs("seed", TRUE, <<1>>), Obs("seed", FALSE, <<>>)}
    /\ res["c1"] = Result(MkBytes(<<1>>), TRUE)
    /\ MapIndex(data, "b") = Result(NilBytes, FALSE)
    /\ MapIndex(data, "a") = Result(MkBytes(<<1>>), TRUE)


\* ------------------------------------------- claims of the periodic task
\* The periodic task starts a snapshot write: its select takes a tick.
TickerStarts == pc[Ticker] = "select" /\ pc'[Ticker] = "sync_rlock"

\* C28: cancellation is effective.  Once Close has been called (k.done is
\* closed) the periodic task starts no further snapshot write, even if a tick
\* is pending at that moment; in particular it starts none after Close has
\* returned.
C28_CancelEffective ==
    /\ [][done => ~TickerStarts]_vars
    /\ [][pc[Closer] = "closed" => ~TickerStarts]_vars


\* The syncToDisk run by p has created DataFile and has not yet closed it: a
\* snapshot write is in progress.
Writing(p) == pc[p] \in {"sync_encode", "sync_ok", "sync_err"}

\* C29: the snapshot writes of one engine are mutually exclusive.  At no
\* instant are two snapshot writes to DataFile in progress; in particular the
\* write of Close never overlaps a periodic write.
C29_WritesExclusive == ~(Writing(Ticker) /\ Writing(Closer))


\* C30: background task termination.  After Close has been called, under fair
\* scheduling and with every snapshot write terminating, the periodic task
\* eventually exits, and once it has exited its ticker delivers no tick; before
\* Close is called it never exits, whatever its writes return.
C30_TaskTermination ==
    /\ done ~> (pc[Ticker] = "exited")
    /\ [](pc[Ticker] = "exited" => done)
    /\ [][pc[Ticker] = "exited" => (pc'[Ticker] = "exited" /\ (tickPending' => tickPending))]_vars
    /\ [][(TickerFails /\ ~done) => pc'[Ticker] # "exited"]_vars

\* C30 happens: the periodic task has exited and Close has returned, after
\* three Sets and with the file left partial by a failed write.
C30_Witness ==
    /\ pc[Ticker] = "exited" /\ pc[Closer] = "closed"
    /\ file = PartialFile
    /\ nops = MaxOps


\* ------------------------------------------------------ claims of progress
\* The call of p is in progress: entered and not yet returned.
InCall(p) == pc[p] \in {"lock", "wait", "cs", "rlock", "rcs"}

\* C31: progress of caller operations.  Under fair scheduling, with every
\* snapshot write terminating, every Set, Get and Delete that has been entered
\* eventually returns, whatever the other caller, the periodic writes and the
\* write of Close do meanwhile.
C31_Progress == \A p \in Callers : InCall(p) ~> ~InCall(p)

\* C31 happens: a Set waits for the readers to leave while the periodic write
\* and the write of Close both hold the read lock, and the Get of the other
\* caller waits behind the writer.
C31_Witness ==
    /\ pc["c1"] = "wait" /\ op["c1"] = "set"
    /\ pc["c2"] = "rlock"
    /\ readers = {Ticker, Closer}


\* ----------------------------------------------------- claims of shutdown
\* C32: Close can be called more than once.  A call of Close made after a
\* Close has returned gives its caller an error value and does not abort the
\* process: no step taken once Close has returned ends the process.
C32_CloseRepeatable == [][(pc[Closer] = "closed" /\ alive) => alive']_vars


\* C33: the final snapshot is final.  After a Close that returned nil the
\* store is not mutated any more, and the snapshot file holds exactly the
\* entries of the store in every later state.
C33_FinalSnapshot ==
    /\ [][closeErr = "nil" => data' = data]_vars
    /\ [](closeErr = "nil" => Encodes(file, data))


\* ------------------------------------------- claims of concurrent requests
\* C34: create-only under concurrency.  Of the SetKey requests for one absent
\* key that run concurrently at most one answers 201: a request answers 201
\* only if the store does not hold its key when it stores its value, so that
\* the value stored is the value of the one request answered 201.
C34_ConcurrentCreate ==
    [][\A h \in Handlers :
        (hpc[h] = "set_set" /\ Answers(h) /\ hresp'[h].code = HttpCreated) =>
            ~MapIndex(data, hreq[h].key).found]_vars


\* ------------------------------------------------------ claims of ownership
\* C35: no aliasing of the store.  The engine shares no mutable reference to
\* its dataset with its callers: a caller that modifies the byte slice Get
\* returned to it changes neither what later Gets return nor what later
\* snapshots hold, that is, it does not change the store.
C35_NoAliasing ==
    [][\A p \in Callers :
        (pc[p] = "ret" /\ pc'[p] = "ret" /\ res'[p] # res[p]) => data' = data]_vars


\* ------------------------------------------------------- claims of startup
\* C36: startup failure stops the process.  When the construction of the
\* engine has returned an error the program does not go on to build the router
\* and serve, and no request is handled with the nil store.
C36_StartupFailureStops ==
    /\ [](ctor = "failed" => srv = "main")
    /\ [][\A h \in Handlers : (StoreIsNil /\ hpc[h] = "recv") => hpc'[h] = "recv"]_vars

\* C37: the map is always initialized.  In every state after NewKeyValueStore
\* has returned an engine, whatever file it accepted (one that encodes no
\* entries or no map at all included), the in-memory map is non-nil, and a Set
\* stores its entry and returns nil.
C37_MapInitialized ==
    /\ [](ctor = "open" => ~data.isnil)
    /\ [][\A p \in Callers :
            (pc[p] = "cs" /\ op[p] = "set" /\ pc'[p] # "cs") =>
                /\ alive'
                /\ MapIndex(data', arg[p].k) = Result(arg[p].v, TRUE)]_vars


\* ---------------------------------------------------- claims of empty values
\* The result r reports a present entry with an empty value.
PresentEmpty(r) == r.found /\ Len(r.value.b) = 0 /\ ~r.err

\* C38: an empty value is a present entry.  A Get(k) for which the only value
\* left for k is an empty byte sequence, stored by a Set or loaded from the
\* snapshot the engine was opened on, returns found = true with an empty
\* value; and the snapshot a successful write of Close leaves, loaded again,
\* holds every such entry as present and empty.
C38_EmptyValuePresent ==
    /\ [](\A p \in Callers : Returned(p) =>
            \A o \in allowed[p] :
                (allowed[p] = {o} /\ o.found /\ o.b = <<>>) => PresentEmpty(res[p]))
    /\ [][EncodeSucceeds(Closer) =>
            \A k \in Keys :
                PresentEmpty(MapIndex(data, k)) =>
                    /\ ~LoadResult(file').err
                    /\ PresentEmpty(MapIndex(LoadResult(file').store, k))]_vars

\* C38 happens: on an engine opened on a snapshot that holds "a" with an empty
\* value, a Get of "a" has returned, after a Set of "b" to an empty value and
\* a Close that wrote both.
C38_Witness ==
    /\ file0 = FullFile([isnil |-> FALSE, m |-> Snap0])
    /\ \E p \in Callers :
         /\ Returned(p) /\ arg[p].k = "a"
         /\ allowed[p] = {Obs("file", TRUE, <<>>)}
         /\ PresentEmpty(res[p])
    /\ closeErr = "nil"
    /\ file.kind = "full" /\ file.wire.entries = [k \in {"a", "b"} |-> <<>>]


\* ------------------------------------------------- claims of configuration
\* C39: construction is safe for every SyncInterval.  Whatever SyncInterval is
\* configured, zero and negative values included, the start of the background
\* task does not abort the process.
C39_AnyIntervalSafe == [][ctor = "spawn" => alive']_vars


\* The limits the claim names, for the Opts the Service was built with.
KeyLimit == IF opts.MaxKeyLength > 0 THEN opts.MaxKeyLength ELSE 256
ValueLimit == IF opts.MaxValueSize > 0 THEN opts.MaxValueSize ELSE 1048576

\* C40: effective validation limits.  The maximum key length SetKey uses is
\* the configured MaxKeyLength when that is greater than zero and 256
\* otherwise, the maximum value size the configured MaxValueSize when that is
\* greater than zero and 1048576 otherwise, and a nil configuration yields
\* both defaults: SetKey refuses a key (and, the key passing, a value) exactly
\* when it is longer than that limit.
C40_EffectiveLimits ==
    /\ [](getMaxKeyLength(opts) = KeyLimit /\ getMaxValueSize(opts) = ValueLimit)
    /\ [](getMaxKeyLength(OptsOf(NilConfig)) = 256 /\ getMaxValueSize(OptsOf(NilConfig)) = 1048576)
    /\ [][\A h \in Handlers :
            (hpc[h] = "recv" /\ hpc'[h] # "recv" /\ hreq[h].method = "POST" /\ hreq[h].json) =>
                /\ (hresp'[h].status = StatusKeyTooLong) <=> (Len(hreq[h].key) > KeyLimit)
                /\ (hresp'[h].status = StatusValueTooLarge) <=>
                       (Len(hreq[h].key) <= KeyLimit /\ Len(hreq[h].value) > ValueLimit)]_vars

\* C40 happens: with the key limit unset and the value limit 1, a POST with a
\* key of length 2 and a value of length 2 has been refused for its value.
C40_Witness ==
    /\ opts = [MaxKeyLength |-> 0, MaxValueSize |-> 1]
    /\ hreq["h1"].method = "POST" /\ Len(hreq["h1"].key) = 2
    /\ hresp["h1"] = Resp(HttpBadRequest, StatusValueTooLarge)

====
